---- MODULE Spec2Model ----
(***************************************************************************)
(* Event propagation analysis of the EAE performance analyzer:             *)
(*   analyze_event_flow.py    (graph builder, cascade tracer, cycle         *)
(*                             detector, explosive patterns, exit code)     *)
(*   detect_storm_patterns.py (graph builder, tight-loop detector, I/O      *)
(*                             multiplication, pattern summary, exit code)  *)
(*                                                                         *)
(* A Python str is modelled as a sequence of one-character strings, so     *)
(* that `"." in s`, s.split(".")[0], s.upper() and `x in s` are computed.  *)
(* A Python dict is modelled as a sequence of entries in insertion order.  *)
(* The float factors are whole numbers (float(n) / 1.0, round(n, 1)) and   *)
(* are modelled as integers.                                               *)
(***************************************************************************)
EXTENDS Integers, Sequences, FiniteSets, TLC

VARIABLES
    \* ---- traversal of one graph, step by step (TraversalSpec) ----
    graph,          \* the event graph handed to the traversals
    pc,             \* position of the program
    source_fb,      \* trace_event_cascade: its source_fb argument
    queue,          \* trace_event_cascade: the BFS queue
    visited,        \* trace_event_cascade: the visited set
    cascade_paths,  \* trace_event_cascade: the paths collected so far
    expanded,       \* history: the nodes dequeued so far by this trace, in order
    max_depth,      \* detect_cycles: its max_depth argument
    key_index,      \* detect_cycles: position of "for source_fb in graph.keys()"
    stack,          \* detect_cycles: the call stack of dfs
    cycles,         \* detect_cycles: the list being returned
    io_threshold,   \* detect_io_multiplication: its threshold argument
    io_violations,  \* detect_io_multiplication: the list it returned
    \* ---- one run of a script on a corpus (Spec) ----
    script,         \* which script runs
    root_exists,    \* whether --app-dir exists
    files,          \* the .fbt files under --app-dir, in discovery order
    fb_types,       \* analyze_event_flow: parsed FB types
    warnings,       \* ValidationResult.warnings
    errors,         \* ValidationResult.errors
    success,        \* ValidationResult.success
    details,        \* ValidationResult.details
    output,         \* what main wrote: "none" or the "json" report
    exit_code,      \* the status handed to sys.exit
    previous        \* history: what the run before this one reported, if any

tvars == <<source_fb, queue, visited, cascade_paths, expanded,
           max_depth, key_index, stack, cycles, io_threshold, io_violations>>
pvars == <<script, root_exists, files, fb_types, warnings, errors, success,
           details, output, exit_code, previous>>
vars == <<graph, pc, source_fb, queue, visited, cascade_paths, expanded,
          max_depth, key_index, stack, cycles, io_threshold, io_violations,
          script, root_exists, files, fb_types, warnings, errors, success,
          details, output, exit_code, previous>>

(***************************************************************************)
(* Bounds of the model                                                     *)
(***************************************************************************)
MaxEdges == 3      \* edges of an enumerated small graph
MaxDepthArg == 2   \* largest max_depth argument tried
MaxStar == 52      \* largest number of leaves of a star
MaxFiles == 2      \* files of an enumerated small corpus
MaxConns == 2      \* connections of one enumerated file
MaxThreshold == 3  \* largest threshold argument tried on small graphs

(***************************************************************************)
(* Numbers of the scripts                                                  *)
(***************************************************************************)
ExplosiveThreshold == 20      \* "if mult > 20"
CriticalMultiplication == 50  \* "CRITICAL if mult > 50 else WARNING"
ExitCriticalFactor == 20      \* "if max_multiplication >= 20: return 11"
ExitWarningFactor == 10       \* "elif max_multiplication >= 10: return 10"
IoThreshold == 30             \* detect_io_multiplication(event_graph, threshold=30)
TightLoopDepth == 2           \* max_depth=2 of both scripts
PathsCap == 50                \* all_cascade_paths[:50]

(***************************************************************************)
(* Python str and list helpers                                             *)
(***************************************************************************)
\* x in xs, for a list
InList(x, xs) == \E i \in 1..Len(xs) : xs[i] = x

\* sub in s, for strings
InStr(sub, s) ==
    \E i \in 0..(Len(s) - Len(sub)) : SubSeq(s, i + 1, i + Len(sub)) = sub

\* s.split(".")[0]
SplitDotFirst(s) ==
    IF InList(".", s)
    THEN LET i == CHOOSE k \in 1..Len(s) :
                      s[k] = "." /\ \A j \in 1..(k - 1) : s[j] # "."
         IN  SubSeq(s, 1, i - 1)
    ELSE s

LowerLetters == <<"a","b","c","d","e","f","g","h","i","j","k","l","m",
                  "n","o","p","q","r","s","t","u","v","w","x","y","z">>
UpperLetters == <<"A","B","C","D","E","F","G","H","I","J","K","L","M",
                  "N","O","P","Q","R","S","T","U","V","W","X","Y","Z">>

\* s.upper()
Upper(s) ==
    [i \in 1..Len(s) |->
        IF InList(s[i], LowerLetters)
        THEN UpperLetters[CHOOSE k \in 1..26 : LowerLetters[k] = s[i]]
        ELSE s[i]]

Digits == <<"0","1","2","3","4","5","6","7","8","9">>

\* str(n) for a natural number
RECURSIVE Str(_)
Str(n) == IF n < 10 THEN <<Digits[n + 1]>>
          ELSE Str(n \div 10) \o <<Digits[(n % 10) + 1]>>

\* TLC computes the argument of an operator only when it is used; a loop
\* that builds a value over many iterations asks for it after each one
Evaluated(v) == v = v

RECURSIVE SumSeq(_)
SumSeq(s) == IF s = <<>> THEN 0 ELSE Head(s) + SumSeq(Tail(s))

(***************************************************************************)
(* The event graph: Dict[str, List[str]], entries in insertion order       *)
(***************************************************************************)
\* graph.keys()
Keys(g) == [i \in 1..Len(g) |-> g[i].fb]

\* k in graph
HasKey(g, k) == \E i \in 1..Len(g) : g[i].fb = k

\* graph[k], for a key
Targets(g, k) == g[CHOOSE i \in 1..Len(g) : g[i].fb = k].targets

\* graph.get(k, [])
Get(g, k) == IF HasKey(g, k) THEN Targets(g, k) ELSE <<>>

\* graph[k] = [] for a new key
WithKey(g, k) == Append(g, [fb |-> k, targets |-> <<>>])

\* graph[k].append(d)
AppendTarget(g, k, d) ==
    [i \in 1..Len(g) |->
        IF g[i].fb = k THEN [g[i] EXCEPT !.targets = Append(@, d)] ELSE g[i]]

\* every node of the graph: keys and successors
GraphNodes(g) ==
    {g[i].fb : i \in 1..Len(g)} \cup
    UNION {{g[i].targets[j] : j \in 1..Len(g[i].targets)} : i \in 1..Len(g)}

\* n has an edge to m
Edge(g, n, m) == InList(m, Get(g, n))

NumEdges(g) == SumSeq([i \in 1..Len(g) |-> Len(g[i].targets)])

(***************************************************************************)
(* Cascade tracer: trace_event_cascade, calculate_multiplication_factor    *)
(***************************************************************************)
\* a variant that counts the source event from 0
TraceStartFromZero(source) ==
    [queue |-> <<[fb |-> source, path |-> <<source>>, events |-> 0]>>,
     visited |-> {},
     cascade_paths |-> <<>>]

\* queue = [(source_fb, [source_fb], 1)], visited = set(), cascade_paths = []
TraceStart(source) ==
    [queue |-> <<[fb |-> source, path |-> <<source>>, events |-> 1]>>,
     visited |-> {},
     cascade_paths |-> <<>>]

\* what queue.pop(0) leaves in the queue
QueuePop(q) == Tail(q)

\* "if target_fb not in visited", the guard of the enqueue
Unvisited(target_fb, seen) == target_fb \notin seen

\* "for target_fb in targets" from position i on: every target not visited
\* yet is marked visited and queued with the path and count extended by one
RECURSIVE EnqueueTargets(_, _, _, _, _)
EnqueueTargets(targets, i, path, events, st) ==
    IF i > Len(targets) THEN st
    ELSE LET target_fb  == targets[i]
             new_path   == Append(path, target_fb)
             new_events == events + 1
         IN  IF Unvisited(target_fb, st.visited)
             THEN EnqueueTargets(targets, i + 1, path, events,
                      [st EXCEPT !.visited = @ \cup {target_fb},
                                 !.queue = Append(@, [fb |-> target_fb,
                                                      path |-> new_path,
                                                      events |-> new_events])])
             ELSE EnqueueTargets(targets, i + 1, path, events, st)

\* a variant that counts the edges of the path instead of its nodes
RecordLeafCountingEdges(source, head, st) ==
    [st EXCEPT !.cascade_paths =
        Append(@, [source |-> source, path |-> head.path,
                   events_generated |-> head.events - 1])]

\* a dequeued node without targets ends a cascade: its path is recorded
RecordLeaf(source, head, st) ==
    [st EXCEPT !.cascade_paths =
        Append(@, [source |-> source, path |-> head.path,
                   events_generated |-> head.events])]

\* a variant that also ends a path at a node whose targets are all visited
TraceIterationEndingExhausted(g, source, st) ==
    LET head    == Head(st.queue)
        popped  == [st EXCEPT !.queue = QueuePop(@)]
        targets == Get(g, head.fb)
    IN  IF \A i \in 1..Len(targets) : targets[i] \in st.visited
        THEN RecordLeaf(source, head, popped)
        ELSE EnqueueTargets(targets, 1, head.path, head.events, popped)

\* one iteration of "while queue"
TraceIteration(g, source, st) ==
    LET head    == Head(st.queue)
        popped  == [st EXCEPT !.queue = QueuePop(@)]
        targets == Get(g, head.fb)
    IN  IF targets = <<>>
        THEN RecordLeaf(source, head, popped)
        ELSE EnqueueTargets(targets, 1, head.path, head.events, popped)

RECURSIVE TraceRun(_, _, _)
TraceRun(g, source, st) ==
    IF st.queue = <<>> THEN st
    ELSE TraceRun(g, source, TraceIteration(g, source, st))

\* trace_event_cascade(graph, source_fb)
TraceEventCascade(g, source) == TraceRun(g, source, TraceStart(source)).cascade_paths

\* a variant that counts the paths instead of their steps
CountPaths(paths) == Len(paths)

\* a variant that counts one event for the source and one for each path
OnePlusPaths(paths) ==
    IF paths = <<>> THEN 0 ELSE 1 + Len(paths)

\* calculate_multiplication_factor(cascade_paths)
CalculateMultiplicationFactor(paths) ==
    IF paths = <<>> THEN 0
    ELSE SumSeq([i \in 1..Len(paths) |-> paths[i].events_generated])

(***************************************************************************)
(* Cycle detector: detect_cycles (path list), detect_tight_loop (set)      *)
(***************************************************************************)
\* a variant whose depth limit is off by one
DfsEnterOneDeeper(g, md, current, target, depth) ==
    IF depth > md + 1 THEN "false"
    ELSE IF current = target /\ depth > 0 THEN "true"
    ELSE IF ~HasKey(g, current) THEN "false"
    ELSE "loop"

\* the checks dfs makes before its loop: "false" and "true" are returns,
\* "loop" goes on to "for neighbor in graph[current]"
DfsEnter(g, md, current, target, depth) ==
    IF depth > md THEN "false"
    ELSE IF current = target /\ depth > 0 THEN "true"
    ELSE IF ~HasKey(g, current) THEN "false"
    ELSE "loop"

\* a variant that never steps onto a node of the path, the target included
MayVisitOffPath(neighbor, path, target) == ~InList(neighbor, path)

\* "if neighbor not in path or neighbor == target"
MayVisit(neighbor, path, target) == ~InList(neighbor, path) \/ neighbor = target

\* dfs(current, target, path, depth) of detect_cycles
RECURSIVE Dfs(_, _, _, _, _, _)
Dfs(g, md, current, target, path, depth) ==
    LET r == DfsEnter(g, md, current, target, depth)
    IN  IF r # "loop" THEN r = "true"
        ELSE \E i \in 1..Len(Targets(g, current)) :
                LET neighbor == Targets(g, current)[i]
                IN  /\ MayVisit(neighbor, path, target)
                    /\ Dfs(g, md, neighbor, target, Append(path, neighbor), depth + 1)

\* a variant that files a cycle as a warning
CycleEntryAsWarning(fb, md) ==
    [fb |-> fb, cycle_depth |-> md, severity |-> "WARNING"]

\* one entry of the list detect_cycles returns
CycleEntry(fb, md) == [fb |-> fb, cycle_depth |-> md, severity |-> "CRITICAL"]

\* detect_cycles(graph, max_depth): the keys, in order, whose dfs succeeds
RECURSIVE DetectCyclesFrom(_, _, _)
DetectCyclesFrom(g, md, k) ==
    IF k > Len(g) THEN <<>>
    ELSE (IF Dfs(g, md, g[k].fb, g[k].fb, <<g[k].fb>>, 0)
          THEN <<CycleEntry(g[k].fb, md)>> ELSE <<>>)
         \o DetectCyclesFrom(g, md, k + 1)

DetectCycles(g, md) == DetectCyclesFrom(g, md, 1)

\* a variant that never steps onto a visited node, the target included
RECURSIVE DfsCycleOffVisited(_, _, _, _, _, _)
DfsCycleOffVisited(g, md, current, target, seen, depth) ==
    IF depth > md THEN FALSE
    ELSE IF current = target /\ depth > 0 THEN TRUE
    ELSE IF ~HasKey(g, current) THEN FALSE
    ELSE \E i \in 1..Len(Targets(g, current)) :
            LET neighbor == Targets(g, current)[i]
            IN  /\ neighbor \notin seen
                /\ DfsCycleOffVisited(g, md, neighbor, target,
                                      seen \cup {neighbor}, depth + 1)

\* dfs_cycle(current, target, visited, depth) of detect_tight_loop
RECURSIVE DfsCycle(_, _, _, _, _, _)
DfsCycle(g, md, current, target, seen, depth) ==
    IF depth > md THEN FALSE
    ELSE IF current = target /\ depth > 0 THEN TRUE
    ELSE IF ~HasKey(g, current) THEN FALSE
    ELSE \E i \in 1..Len(Targets(g, current)) :
            LET neighbor == Targets(g, current)[i]
            IN  /\ (neighbor \notin seen \/ neighbor = target)
                /\ DfsCycle(g, md, neighbor, target, seen \cup {neighbor}, depth + 1)

\* detect_tight_loop(graph, max_depth)
RECURSIVE DetectTightLoopFrom(_, _, _)
DetectTightLoopFrom(g, md, k) ==
    IF k > Len(g) THEN <<>>
    ELSE (IF DfsCycle(g, md, g[k].fb, g[k].fb, {g[k].fb}, 0)
          THEN <<[fb |-> g[k].fb, cycle_depth |-> md]>> ELSE <<>>)
         \o DetectTightLoopFrom(g, md, k + 1)

DetectTightLoop(g, md) == DetectTightLoopFrom(g, md, 1)

\* detect_io_multiplication: "any(x in fb.upper() for x in [IO, DI, AI, DO, AO])"
IoMarkers == {<<"I","O">>, <<"D","I">>, <<"A","I">>, <<"D","O">>, <<"A","O">>}
IsIoSource(fb) == \E x \in IoMarkers : InStr(x, Upper(fb))

\* a variant that counts a node each time it is taken from the queue
RECURSIVE CountDownstreamEveryVisit(_, _)
CountDownstreamEveryVisit(g, st) ==
    IF st.queue = <<>> THEN st.event_count
    ELSE LET current == Head(st.queue)
             rest    == Tail(st.queue)
         IN  IF current \in st.visited
             THEN CountDownstreamEveryVisit(g,
                      [st EXCEPT !.queue = rest,
                                 !.event_count = @ + 1])
             ELSE CountDownstreamEveryVisit(g,
                      [queue |-> IF HasKey(g, current)
                                 THEN rest \o Targets(g, current) ELSE rest,
                       visited |-> st.visited \cup {current},
                       event_count |-> st.event_count + 1])

\* the BFS of detect_io_multiplication: st = [queue, visited, event_count]
RECURSIVE CountDownstream(_, _)
CountDownstream(g, st) ==
    IF st.queue = <<>> THEN st.event_count
    ELSE LET current == Head(st.queue)
             rest    == Tail(st.queue)
         IN  IF current \in st.visited
             THEN CountDownstream(g, [st EXCEPT !.queue = rest])
             ELSE CountDownstream(g,
                      [queue |-> IF HasKey(g, current)
                                 THEN rest \o Targets(g, current) ELSE rest,
                       visited |-> st.visited \cup {current},
                       event_count |-> st.event_count + 1])

EventCount(g, io_fb) ==
    CountDownstream(g, [queue |-> <<io_fb>>, visited |-> {}, event_count |-> 0])

\* a variant with the comparison turned round
BelowThreshold(event_count, threshold) == event_count < threshold

\* "if event_count > threshold"
ExceedsThreshold(event_count, threshold) == event_count > threshold

\* detect_io_multiplication(graph, threshold)
RECURSIVE DetectIoMultiplicationFrom(_, _, _)
DetectIoMultiplicationFrom(g, threshold, k) ==
    IF k > Len(g) THEN <<>>
    ELSE (IF IsIoSource(g[k].fb) /\ ExceedsThreshold(EventCount(g, g[k].fb), threshold)
          THEN <<[io_source |-> g[k].fb, multiplication |-> EventCount(g, g[k].fb)]>>
          ELSE <<>>)
         \o DetectIoMultiplicationFrom(g, threshold, k + 1)

DetectIoMultiplication(g, threshold) == DetectIoMultiplicationFrom(g, threshold, 1)

(***************************************************************************)
(* Inputs of the traversal specification: small graphs and stars           *)
(***************************************************************************)
\* node names of the enumerated graphs; "di" is an I/O name in lower case
Nodes == {<<"A">>, <<"B">>, <<"d","i">>}

\* duplicate-free successor lists (both graph builders test "not in" before append)
TargetLists ==
    {t \in UNION {[1..n -> Nodes] : n \in 0..Cardinality(Nodes)} :
        \A i, j \in 1..Len(t) : t[i] = t[j] => i = j}

SmallGraphs ==
    {g \in UNION {[1..n -> [fb : Nodes, targets : TargetLists]] :
                     n \in 0..Cardinality(Nodes)} :
        /\ \A i, j \in 1..Len(g) : g[i].fb = g[j].fb => i = j
        /\ NumEdges(g) <= MaxEdges}

StarCentres == {<<"A">>, <<"D","I">>}
Leaf(i) == <<"B">> \o Str(i)

\* centre c with edges to the childless B1..Bk
StarGraph(c, k) == <<[fb |-> c, targets |-> [i \in 1..k |-> Leaf(i)]]>>
StarGraphs == {StarGraph(c, k) : c \in StarCentres, k \in 0..MaxStar}

IsStar(g, c, k) == g = StarGraph(c, k)

\* the run of a script has not started: its variables are unused here
\* no run has gone before
NoPrevious == [ran |-> FALSE]

NoRun ==
    /\ script = "none"
    /\ root_exists = FALSE
    /\ files = <<>>
    /\ fb_types = <<>>
    /\ warnings = <<>>
    /\ errors = <<>>
    /\ success = FALSE
    /\ details = <<>>
    /\ output = "none"
    /\ exit_code = -1
    /\ previous = NoPrevious

\* no traversal is in progress
NoTraversal ==
    /\ source_fb = <<>>
    /\ queue = <<>>
    /\ visited = {}
    /\ cascade_paths = <<>>
    /\ expanded = <<>>
    /\ max_depth = 0
    /\ key_index = 0
    /\ stack = <<>>
    /\ cycles = <<>>
    /\ io_threshold = 0
    /\ io_violations = <<>>

TInit ==
    /\ graph \in SmallGraphs \cup StarGraphs
    /\ pc = "idle"
    /\ NoTraversal
    /\ NoRun

(***************************************************************************)
(* trace_event_cascade, one loop iteration per step                        *)
(***************************************************************************)
\* the call trace_event_cascade(graph, n), for a key or any other node
CallTrace ==
    /\ pc = "idle"
    /\ \E n \in Nodes \cup GraphNodes(graph) :
          /\ source_fb' = n
          /\ queue' = TraceStart(n).queue
          /\ visited' = TraceStart(n).visited
          /\ cascade_paths' = TraceStart(n).cascade_paths
    /\ expanded' = <<>>
    /\ pc' = "trace"
    /\ UNCHANGED <<graph, max_depth, key_index, stack, cycles, io_threshold, io_violations>>
    /\ UNCHANGED pvars

\* a variant that reads the targets as a defaultdict does: looking up a node
\* that is not a key adds the key with an empty list
TraceLoopAddingKey ==
    /\ pc = "trace"
    /\ queue # <<>>
    /\ LET st == TraceIteration(graph, source_fb,
                    [queue |-> queue, visited |-> visited,
                     cascade_paths |-> cascade_paths])
       IN  /\ queue' = st.queue
           /\ visited' = st.visited
           /\ cascade_paths' = st.cascade_paths
    /\ graph' = IF HasKey(graph, Head(queue).fb) THEN graph
                ELSE Append(graph, [fb |-> Head(queue).fb, targets |-> <<>>])
    /\ expanded' = Append(expanded, Head(queue).fb)
    /\ UNCHANGED <<pc, source_fb, max_depth, key_index, stack, cycles,
                   io_threshold, io_violations>>
    /\ UNCHANGED pvars

\* one iteration of "while queue"
TraceLoop ==
    /\ pc = "trace"
    /\ queue # <<>>
    /\ LET st == TraceIteration(graph, source_fb,
                    [queue |-> queue, visited |-> visited,
                     cascade_paths |-> cascade_paths])
       IN  /\ queue' = st.queue
           /\ visited' = st.visited
           /\ cascade_paths' = st.cascade_paths
    /\ expanded' = Append(expanded, Head(queue).fb)
    /\ UNCHANGED <<graph, pc, source_fb, max_depth, key_index, stack, cycles,
                   io_threshold, io_violations>>
    /\ UNCHANGED pvars

\* the queue is empty: "return cascade_paths"
TraceReturn ==
    /\ pc = "trace"
    /\ queue = <<>>
    /\ pc' = "traced"
    /\ UNCHANGED <<graph, tvars>>
    /\ UNCHANGED pvars

(***************************************************************************)
(* detect_cycles, one step of the recursion per step                       *)
(* A frame [current, path, depth, next] is a call of dfs that is in its    *)
(* loop, about to look at graph[current][next]; stack[1] is the call made  *)
(* for the source, whose current is the target.                            *)
(***************************************************************************)
Frame(current, path, depth) ==
    [current |-> current, path |-> path, depth |-> depth, next |-> 1]

\* a variant that looks at the same neighbor again
AdvanceStuck(frame) == frame

\* "for neighbor in graph[current]" moves on to the next neighbor
Advance(frame) == [frame EXCEPT !.next = @ + 1]

\* the call detect_cycles(graph, md)
CallDetect ==
    /\ pc = "idle"
    /\ \E md \in 0..MaxDepthArg : max_depth' = md
    /\ key_index' = 1
    /\ stack' = <<>>
    /\ cycles' = <<>>
    /\ pc' = "detect"
    /\ UNCHANGED <<graph, source_fb, queue, visited, cascade_paths, expanded,
                   io_threshold, io_violations>>
    /\ UNCHANGED pvars

\* "for source_fb in graph.keys(): if dfs(source_fb, source_fb, [source_fb], 0)"
DetectSource ==
    /\ pc = "detect"
    /\ stack = <<>>
    /\ key_index <= Len(graph)
    /\ LET s == graph[key_index].fb
           r == DfsEnter(graph, max_depth, s, s, 0)
       IN  IF r = "loop"
           THEN /\ stack' = <<Frame(s, <<s>>, 0)>>
                /\ UNCHANGED <<key_index, cycles>>
           ELSE /\ stack' = <<>>
                /\ key_index' = key_index + 1
                /\ cycles' = IF r = "true"
                             THEN Append(cycles, CycleEntry(s, max_depth))
                             ELSE cycles
    /\ UNCHANGED <<graph, pc, source_fb, queue, visited, cascade_paths, expanded,
                   max_depth, io_threshold, io_violations>>
    /\ UNCHANGED pvars

\* the innermost call of dfs takes its next neighbor, or leaves its loop and
\* returns False; a callee that returns True makes every caller return True
DfsStep ==
    /\ pc = "detect"
    /\ stack # <<>>
    /\ LET top      == stack[Len(stack)]
           target   == stack[1].current
           targets  == Targets(graph, top.current)
           callers  == SubSeq(stack, 1, Len(stack) - 1)
           advanced == [stack EXCEPT ![Len(stack)] = Advance(@)]
       IN  IF top.next > Len(targets)
           THEN /\ stack' = callers
                /\ key_index' = IF callers = <<>> THEN key_index + 1 ELSE key_index
                /\ UNCHANGED cycles
           ELSE LET neighbor == targets[top.next]
                    r == IF MayVisit(neighbor, top.path, target)
                         THEN DfsEnter(graph, max_depth, neighbor, target, top.depth + 1)
                         ELSE "skip"
                IN  IF r = "true"
                    THEN /\ stack' = <<>>
                         /\ key_index' = key_index + 1
                         /\ cycles' = Append(cycles, CycleEntry(target, max_depth))
                    ELSE /\ stack' = IF r = "loop"
                                     THEN Append(advanced,
                                              Frame(neighbor, Append(top.path, neighbor),
                                                    top.depth + 1))
                                     ELSE advanced
                         /\ UNCHANGED <<key_index, cycles>>
    /\ UNCHANGED <<graph, pc, source_fb, queue, visited, cascade_paths, expanded,
                   max_depth, io_threshold, io_violations>>
    /\ UNCHANGED pvars

\* every key has been tried: "return cycles"
DetectReturn ==
    /\ pc = "detect"
    /\ stack = <<>>
    /\ key_index > Len(graph)
    /\ pc' = "detected"
    /\ UNCHANGED <<graph, tvars>>
    /\ UNCHANGED pvars

\* the call detect_io_multiplication(graph, th)
Thresholds == (0..MaxThreshold) \cup {IoThreshold}

CallIoMultiplication ==
    /\ pc = "idle"
    /\ \E th \in Thresholds :
          /\ io_threshold' = th
          /\ io_violations' = DetectIoMultiplication(graph, th)
    /\ pc' = "counted"
    /\ UNCHANGED <<graph, source_fb, queue, visited, cascade_paths, expanded,
                   max_depth, key_index, stack, cycles>>
    /\ UNCHANGED pvars

\* the caller has taken the result; the next call may follow
Resume ==
    /\ pc \in {"traced", "detected", "counted"}
    /\ pc' = "idle"
    /\ source_fb' = <<>>
    /\ queue' = <<>>
    /\ visited' = {}
    /\ cascade_paths' = <<>>
    /\ expanded' = <<>>
    /\ max_depth' = 0
    /\ key_index' = 0
    /\ stack' = <<>>
    /\ cycles' = <<>>
    /\ io_threshold' = 0
    /\ io_violations' = <<>>
    /\ UNCHANGED graph
    /\ UNCHANGED pvars

TNext ==
    \/ CallTrace
    \/ TraceLoop
    \/ TraceReturn
    \/ CallDetect
    \/ DetectSource
    \/ DfsStep
    \/ DetectReturn
    \/ CallIoMultiplication
    \/ Resume

TraversalSpec == TInit /\ [][TNext]_vars

\* a running loop or recursion keeps running: the interpreter executes the
\* next iteration, the next call and the return
FairTraversalSpec ==
    /\ TraversalSpec
    /\ WF_vars(TraceLoop)
    /\ WF_vars(TraceReturn)
    /\ WF_vars(DetectSource)
    /\ WF_vars(DfsStep)
    /\ WF_vars(DetectReturn)

\* the step-by-step traversals return what the functions return
TraceStepsAgree ==
    pc = "traced" => cascade_paths = TraceEventCascade(graph, source_fb)
DetectStepsAgree ==
    pc = "detected" => cycles = DetectCycles(graph, max_depth)

(***************************************************************************)
(* The corpus: .fbt files as the scripts read them                         *)
(*   parses       ET.parse succeeds                                        *)
(*   has_name     the root element has a Name attribute                    *)
(*   name         its value                                                *)
(*   fbs          FBNetwork/FB elements: instance name and declared type   *)
(*   conns        FBNetwork//EventConnections/Connection elements          *)
(***************************************************************************)
Ref(inst, event) == inst \o <<".">> \o event
Conn(src, dst) == [source |-> src, destination |-> dst]
Fb(name, type) == [name |-> name, type |-> type]

FbtFile(has_name, name, fbs, conns) ==
    [parses |-> TRUE, has_name |-> has_name, name |-> name,
     fbs |-> fbs, conns |-> conns]

\* a file that is not well-formed XML
BrokenFile ==
    [parses |-> FALSE, has_name |-> FALSE, name |-> <<>>,
     fbs |-> <<>>, conns |-> <<>>]

\* the instances an enumerated file declares: X of type B, and B of type A
SmallFbs == <<Fb(<<"X">>, <<"B">>), Fb(<<"B">>, <<"A">>)>>

\* the wiring entries an enumerated file may hold; Z is not declared
SmallConns ==
    {Conn(<<"E">>, Ref(<<"X">>, <<"E">>)),
     Conn(Ref(<<"X">>, <<"E">>), Ref(<<"B">>, <<"E">>)),
     Conn(Ref(<<"B">>, <<"E">>), Ref(<<"X">>, <<"E">>)),
     Conn(<<"E">>, Ref(<<"Z">>, <<"E">>)),
     Conn(Ref(<<"X">>, <<"E">>), <<"E">>)}

SmallConnLists == UNION {[1..n -> SmallConns] : n \in 0..MaxConns}

SmallFiles ==
    {BrokenFile}
    \cup {FbtFile(TRUE, name, SmallFbs, conns) :
             name \in {<<"A">>, <<"B">>}, conns \in SmallConnLists}
    \cup {FbtFile(has_name, <<>>, SmallFbs, conns) :
             has_name \in BOOLEAN,
             conns \in {<<>>, <<Conn(<<"E">>, Ref(<<"X">>, <<"E">>))>>}}

SmallCorpora == UNION {[1..n -> SmallFiles] : n \in 0..MaxFiles}

\* one file: type c with instances B1..Bk (of type L) and wiring E -> Bi.E
StarFile(c, k) ==
    FbtFile(TRUE, c, [i \in 1..k |-> Fb(Leaf(i), <<"L">>)],
            [i \in 1..k |-> Conn(<<"E">>, Ref(Leaf(i), <<"E">>))])
StarCorpora == {<<StarFile(c, k)>> : c \in StarCentres, k \in 0..MaxStar}

Scripts == {"analyze_event_flow", "detect_storm_patterns"}

(***************************************************************************)
(* Loader and graph builder of analyze_event_flow.py                       *)
(***************************************************************************)
Unknown == <<"U","n","k","n","o","w","n">>

\* root.get("Name", "Unknown")
NameOf(f) == IF f.has_name THEN f.name ELSE Unknown

\* parse_fb_type(filepath), for a file that parses
ParseFbType(f) ==
    [name |-> NameOf(f), fb_instances |-> f.fbs, event_connections |-> f.conns]

\* the loop "for fbt_file in fbt_files": [fb_types, warnings] from file i on
RECURSIVE ParseAll(_, _, _)
ParseAll(fs, i, acc) ==
    IF i > Len(fs) THEN acc
    ELSE IF ~fs[i].parses
         THEN ParseAll(fs, i + 1,
                  [acc EXCEPT !.warnings =
                      Append(@, [kind |-> "parse_error", file |-> i])])
         ELSE ParseAll(fs, i + 1,
                  [acc EXCEPT !.fb_types = Append(@, ParseFbType(fs[i]))])

\* source.split(".")[0] if "." in source else fb_name
SourceFb(source, fb_name) ==
    IF InList(".", source) THEN SplitDotFirst(source) ELSE fb_name

\* the node an edge is added to: dest.split(".")[0]
DestFb(fb_type, dest) == SplitDotFirst(dest)

\* the body of "for conn in fb_type.get('event_connections', [])"
AddConnection(g, fb_type, conn) ==
    LET src == SourceFb(conn.source, fb_type.name)
    IN  IF InList(".", conn.destination)
        THEN LET dest_fb == DestFb(fb_type, conn.destination)
             IN  IF ~InList(dest_fb, Get(g, src))
                 THEN AppendTarget(IF HasKey(g, src) THEN g ELSE WithKey(g, src),
                                   src, dest_fb)
                 ELSE g
        ELSE g

RECURSIVE AddConnections(_, _, _, _)
AddConnections(g, fb_type, conns, i) ==
    IF i > Len(conns) THEN g
    ELSE LET g1 == AddConnection(g, fb_type, conns[i])
         IN  IF Evaluated(g1) THEN AddConnections(g1, fb_type, conns, i + 1) ELSE g1

\* "if fb_name not in graph: graph[fb_name] = []"
InitNode(g, fb_name) == IF HasKey(g, fb_name) THEN g ELSE WithKey(g, fb_name)

\* build_event_graph(fb_types) of analyze_event_flow.py
RECURSIVE BuildEventGraphFrom(_, _, _)
BuildEventGraphFrom(g, types, i) ==
    IF i > Len(types) THEN g
    ELSE BuildEventGraphFrom(
             AddConnections(InitNode(g, types[i].name), types[i],
                            types[i].event_connections, 1),
             types, i + 1)

BuildEventGraph(types) == BuildEventGraphFrom(<<>>, types, 1)

(***************************************************************************)
(* Graph builder of detect_storm_patterns.py                               *)
(***************************************************************************)
\* the body of "for conn in fbnetwork.findall(...)"
StormAddConnection(g, fb_name, conn) ==
    LET source == SourceFb(conn.source, fb_name)
        dest   == IF InList(".", conn.destination)
                  THEN SplitDotFirst(conn.destination) ELSE <<>>
    IN  IF dest # <<>>
        THEN LET g1 == IF HasKey(g, source) THEN g ELSE WithKey(g, source)
             IN  IF ~InList(dest, Targets(g1, source))
                 THEN AppendTarget(g1, source, dest)
                 ELSE g1
        ELSE g

RECURSIVE StormAddConnections(_, _, _, _)
StormAddConnections(g, fb_name, conns, i) ==
    IF i > Len(conns) THEN g
    ELSE LET g1 == StormAddConnection(g, fb_name, conns[i])
         IN  IF Evaluated(g1) THEN StormAddConnections(g1, fb_name, conns, i + 1) ELSE g1

\* build_event_graph(fbt_files) of detect_storm_patterns.py: a file that
\* raises is passed over by "except Exception: continue"
RECURSIVE StormBuildFrom(_, _, _)
StormBuildFrom(g, fs, i) ==
    IF i > Len(fs) THEN g
    ELSE IF ~fs[i].parses THEN StormBuildFrom(g, fs, i + 1)
    ELSE StormBuildFrom(StormAddConnections(g, NameOf(fs[i]), fs[i].conns, 1),
                        fs, i + 1)

StormBuildEventGraph(fs) == StormBuildFrom(<<>>, fs, 1)

(***************************************************************************)
(* Classification and exit status                                          *)
(***************************************************************************)
\* details = {}, and the keys a script has not written
NoDetails ==
    [present |-> FALSE,
     multiplication_factors |-> <<>>,
     cascade_paths |-> <<>>,
     explosive_patterns |-> <<>>,
     cycles_detected |-> <<>>,
     detected_patterns |-> <<>>,
     pattern_summary |-> [CRITICAL |-> 0, WARNING |-> 0, INFO |-> 0]]

\* a variant that lists every key, also one whose factor is 0
RECURSIVE FactorsFromEveryKey(_, _, _)
FactorsFromEveryKey(g, k, acc) ==
    IF k > Len(g) THEN acc
    ELSE LET paths == TraceEventCascade(g, g[k].fb)
             mult_factor == CalculateMultiplicationFactor(paths)
         IN  FactorsFromEveryKey(g, k + 1,
                 [factors |-> Append(acc.factors,
                                     [fb |-> g[k].fb, mult |-> mult_factor]),
                  paths |-> acc.paths \o paths])

\* the loop "for source_fb in event_graph.keys()" of analyze_event_flow:
\* acc = [factors, paths]; a source is entered only "if mult_factor > 0"
RECURSIVE FactorsFrom(_, _, _)
FactorsFrom(g, k, acc) ==
    IF k > Len(g) THEN acc
    ELSE LET paths == TraceEventCascade(g, g[k].fb)
             mult_factor == CalculateMultiplicationFactor(paths)
         IN  IF mult_factor > 0
             THEN FactorsFrom(g, k + 1,
                      [factors |-> Append(acc.factors,
                                          [fb |-> g[k].fb, mult |-> mult_factor]),
                       paths |-> acc.paths \o paths])
             ELSE FactorsFrom(g, k + 1, acc)

MultiplicationFactors(g) == FactorsFrom(g, 1, [factors |-> <<>>, paths |-> <<>>])

\* "CRITICAL" if mult > 50 else "WARNING"
ExplosiveSeverity(mult) ==
    IF mult > CriticalMultiplication THEN "CRITICAL" ELSE "WARNING"

\* a variant that also lists a factor equal to the threshold
IsExplosiveFromThreshold(mult) == mult >= ExplosiveThreshold

\* "if mult > 20" of the explosive_patterns comprehension
IsExplosive(mult) == mult > ExplosiveThreshold

\* explosive_patterns, in the order of multiplication_factors
RECURSIVE ExplosivePatternsFrom(_, _)
ExplosivePatternsFrom(factors, i) ==
    IF i > Len(factors) THEN <<>>
    ELSE (IF IsExplosive(factors[i].mult)
          THEN <<[source |-> factors[i].fb, multiplication |-> factors[i].mult,
                  severity |-> ExplosiveSeverity(factors[i].mult)]>>
          ELSE <<>>)
         \o ExplosivePatternsFrom(factors, i + 1)

ExplosivePatterns(factors) == ExplosivePatternsFrom(factors, 1)

\* max(mult_factors.values())
RECURSIVE MaxMult(_)
MaxMult(factors) ==
    IF Len(factors) = 1 THEN factors[1].mult
    ELSE LET m == MaxMult(Tail(factors))
         IN  IF factors[1].mult >= m THEN factors[1].mult ELSE m

\* ValidationResult.exit_code of analyze_event_flow.py
AnalyzeExitCode(ok, d) ==
    IF ~ok THEN 1
    ELSE IF d.multiplication_factors = <<>> THEN 0
    ELSE LET max_multiplication == MaxMult(d.multiplication_factors)
         IN  IF max_multiplication >= ExitCriticalFactor THEN 11
             ELSE IF max_multiplication >= ExitWarningFactor THEN 10
             ELSE 0

\* detected_patterns of detect_patterns: the tight loops, then the I/O violations
TightLoopPatterns(loops) ==
    [i \in 1..Len(loops) |->
        [pattern |-> "TIGHT_EVENT_LOOP", severity |-> "CRITICAL",
         fb |-> loops[i].fb, multiplication |-> 0]]

IoPatterns(violations) ==
    [i \in 1..Len(violations) |->
        [pattern |-> "UNCONTROLLED_IO_MULTIPLICATION", severity |-> "WARNING",
         fb |-> violations[i].io_source,
         multiplication |-> violations[i].multiplication]]

DetectedPatterns(g) ==
    TightLoopPatterns(DetectTightLoop(g, TightLoopDepth))
    \o IoPatterns(DetectIoMultiplication(g, IoThreshold))

\* sum(1 for p in detected if p["severity"] == sev)
CountSeverity(patterns, sev) ==
    Cardinality({i \in 1..Len(patterns) : patterns[i].severity = sev})

PatternSummary(patterns) ==
    [CRITICAL |-> CountSeverity(patterns, "CRITICAL"),
     WARNING |-> CountSeverity(patterns, "WARNING"),
     INFO |-> CountSeverity(patterns, "INFO")]

\* a variant that takes any finding for a critical one
StormExitCodeAnyFinding(ok, d) ==
    IF ~ok THEN 1
    ELSE IF d.detected_patterns = <<>> THEN 0
    ELSE 11

\* ValidationResult.exit_code of detect_storm_patterns.py
StormExitCode(ok, d) ==
    IF ~ok THEN 1
    ELSE IF d.detected_patterns = <<>> THEN 0
    ELSE IF CountSeverity(d.detected_patterns, "CRITICAL") > 0 THEN 11
    ELSE 10

(***************************************************************************)
(* One run of a script: main, then analyze_event_flow or detect_patterns   *)
(***************************************************************************)
Warning(kind, file) == [kind |-> kind, file |-> file]

Init ==
    /\ script \in Scripts
    /\ root_exists \in BOOLEAN
    /\ files \in (IF root_exists THEN SmallCorpora \cup StarCorpora ELSE {<<>>})
    /\ fb_types = <<>>
    /\ warnings = <<>>
    /\ errors = <<>>
    /\ success = FALSE
    /\ details = NoDetails
    /\ output = "none"
    /\ exit_code = -1
    /\ previous = NoPrevious
    /\ graph = <<>>
    /\ pc = "main"
    /\ NoTraversal

\* main: "if not app_dir.exists(): sys.exit(1)", else the analysis starts
Main ==
    /\ pc = "main"
    /\ IF root_exists
       THEN /\ pc' = "find"
            /\ UNCHANGED exit_code
       ELSE /\ pc' = "exited"
            /\ exit_code' = 1
    /\ UNCHANGED <<script, root_exists, files, fb_types, warnings, errors,
                   success, details, output>>
    /\ UNCHANGED <<graph, tvars, previous>>

\* both scripts: "if not fbt_files: return ValidationResult(success=False, ...)"
FindFiles ==
    /\ pc = "find"
    /\ IF files = <<>>
       THEN /\ success' = FALSE
            /\ errors' = <<"No .fbt files found in application directory">>
            /\ details' = NoDetails
            /\ pc' = "result"
       ELSE /\ pc' = IF script = "analyze_event_flow" THEN "parse" ELSE "storm_build"
            /\ UNCHANGED <<success, errors, details>>
    /\ UNCHANGED <<script, root_exists, files, fb_types, warnings, output, exit_code>>
    /\ UNCHANGED <<graph, tvars, previous>>

\* analyze_event_flow: parse all FB types; none parsed is a failure
AnalyzeParse ==
    /\ pc = "parse"
    /\ LET r == ParseAll(files, 1, [fb_types |-> <<>>, warnings |-> <<>>])
       IN  /\ fb_types' = r.fb_types
           /\ warnings' = r.warnings
           /\ IF r.fb_types = <<>>
              THEN /\ success' = FALSE
                   /\ errors' = <<"Failed to parse any .fbt files">>
                   /\ details' = NoDetails
                   /\ pc' = "result"
              ELSE /\ pc' = "build"
                   /\ UNCHANGED <<success, errors, details>>
    /\ UNCHANGED <<script, root_exists, files, output, exit_code>>
    /\ UNCHANGED <<graph, tvars, previous>>

\* analyze_event_flow: build the event graph; an empty graph ends the analysis
AnalyzeBuild ==
    /\ pc = "build"
    /\ graph' = BuildEventGraph(fb_types)
    /\ IF graph' = <<>>
       THEN /\ success' = TRUE
            /\ warnings' = <<Warning("no_event_connections", 0)>>
            /\ details' = [NoDetails EXCEPT !.present = TRUE]
            /\ pc' = "result"
       ELSE /\ pc' = "factors"
            /\ UNCHANGED <<success, warnings, details>>
    /\ UNCHANGED <<script, root_exists, files, fb_types, errors, output, exit_code>>
    /\ UNCHANGED <<tvars, previous>>

\* analyze_event_flow: multiplication factors and cascade paths of every key
AnalyzeFactors ==
    /\ pc = "factors"
    /\ LET r == MultiplicationFactors(graph)
       IN  details' = [details EXCEPT
                          !.present = TRUE,
                          !.multiplication_factors = r.factors,
                          !.cascade_paths =
                              SubSeq(r.paths, 1,
                                     IF Len(r.paths) < PathsCap
                                     THEN Len(r.paths) ELSE PathsCap)]
    /\ pc' = "classify"
    /\ UNCHANGED <<script, root_exists, files, fb_types, warnings, errors,
                   success, output, exit_code>>
    /\ UNCHANGED <<graph, tvars, previous>>

\* analyze_event_flow: explosive patterns, tight loops, the result
AnalyzeClassify ==
    /\ pc = "classify"
    /\ details' = [details EXCEPT
                      !.explosive_patterns =
                          ExplosivePatterns(details.multiplication_factors),
                      !.cycles_detected = DetectCycles(graph, TightLoopDepth)]
    /\ success' = (errors = <<>>)
    /\ pc' = "result"
    /\ UNCHANGED <<script, root_exists, files, fb_types, warnings, errors,
                   output, exit_code>>
    /\ UNCHANGED <<graph, tvars, previous>>

\* detect_patterns: build the event graph; an empty graph ends the detection
StormBuild ==
    /\ pc = "storm_build"
    /\ graph' = StormBuildEventGraph(files)
    /\ IF graph' = <<>>
       THEN /\ warnings' = Append(warnings, Warning("no_event_connections", 0))
            /\ success' = TRUE
            /\ details' = [NoDetails EXCEPT !.present = TRUE]
            /\ pc' = "result"
       ELSE /\ pc' = "patterns"
            /\ UNCHANGED <<success, warnings, details>>
    /\ UNCHANGED <<script, root_exists, files, fb_types, errors, output, exit_code>>
    /\ UNCHANGED <<tvars, previous>>

\* detect_patterns: the patterns, their summary, the result
StormPatterns ==
    /\ pc = "patterns"
    /\ LET detected == DetectedPatterns(graph)
       IN  details' = [details EXCEPT
                          !.present = TRUE,
                          !.detected_patterns = detected,
                          !.pattern_summary = PatternSummary(detected)]
    /\ success' = TRUE
    /\ pc' = "result"
    /\ UNCHANGED <<script, root_exists, files, fb_types, warnings, errors,
                   output, exit_code>>
    /\ UNCHANGED <<graph, tvars, previous>>

\* result.exit_code of the script that ran
ExitCode(scr, ok, d) ==
    IF scr = "analyze_event_flow" THEN AnalyzeExitCode(ok, d) ELSE StormExitCode(ok, d)

\* main: write the JSON report, then sys.exit(result.exit_code)
Finish ==
    /\ pc = "result"
    /\ output' = "json"
    /\ exit_code' = ExitCode(script, success, details)
    /\ pc' = "exited"
    /\ UNCHANGED <<script, root_exists, files, fb_types, warnings, errors,
                   success, details>>
    /\ UNCHANGED <<graph, tvars, previous>>

\* find_fbt_files(app_dir) of a later invocation on the unchanged corpus
\* fs: the same files in the same order (a variant yields them reversed)
FindFbtFilesReversed(fs) == [i \in 1..Len(fs) |-> fs[Len(fs) + 1 - i]]

FindFbtFiles(fs) == fs

\* the script is invoked once more on the same --app-dir: a new process,
\* nothing of the run before is left but what it reported
RunAgain ==
    /\ pc = "exited"
    /\ ~previous.ran
    /\ previous' = [ran |-> TRUE, success |-> success, details |-> details,
                    output |-> output, exit_code |-> exit_code]
    /\ files' = FindFbtFiles(files)
    /\ fb_types' = <<>>
    /\ warnings' = <<>>
    /\ errors' = <<>>
    /\ success' = FALSE
    /\ details' = NoDetails
    /\ output' = "none"
    /\ exit_code' = -1
    /\ graph' = <<>>
    /\ pc' = "main"
    /\ UNCHANGED <<script, root_exists, tvars>>

Next ==
    \/ Main
    \/ FindFiles
    \/ AnalyzeParse
    \/ AnalyzeBuild
    \/ AnalyzeFactors
    \/ AnalyzeClassify
    \/ StormBuild
    \/ StormPatterns
    \/ Finish
    \/ RunAgain

Spec == Init /\ [][Next]_vars

(***************************************************************************)
(* Graph notions the properties are stated with                            *)
(***************************************************************************)
\* the nodes one hop after the nodes of S
Successors(g, S) == {m \in GraphNodes(g) : \E n \in S : Edge(g, n, m)}

\* the nodes reached from n by a walk of at least 1 and at most d edges
RECURSIVE WithinHops(_, _, _)
WithinHops(g, n, d) ==
    IF d <= 0 THEN {}
    ELSE Successors(g, {n}) \cup
         UNION {WithinHops(g, m, d - 1) : m \in Successors(g, {n})}

\* a directed cycle through n closes within d hops
OnCycleWithin(g, n, d) == n \in WithinHops(g, n, d)

\* the nodes a list of cycle entries reports
Reported(entries) == {entries[i].fb : i \in 1..Len(entries)}

(***************************************************************************)
(* C1. A node without outgoing edges (a key with an empty successor list,  *)
(* or a node that is not a key) traces to exactly one cascade path, the    *)
(* path [n] with step count 1, and its multiplication factor is 1.         *)
(***************************************************************************)
C1_SinkTracesToItself ==
    (pc = "traced" /\ Get(graph, source_fb) = <<>>) =>
        /\ cascade_paths = <<[source |-> source_fb, path |-> <<source_fb>>,
                              events_generated |-> 1]>>
        /\ CalculateMultiplicationFactor(cascade_paths) = 1

\* a trace has returned for a node that is not a key of a graph with edges
C1_Witness ==
    /\ pc = "traced"
    /\ ~HasKey(graph, source_fb)
    /\ source_fb \in GraphNodes(graph)
    /\ Len(cascade_paths) = 1

(***************************************************************************)
(* C2. detect_cycles and detect_tight_loop report a node only if a         *)
(* directed cycle through it closes within max_depth hops; with            *)
(* max_depth = 0 nothing is reported, not even a node with a self-loop.    *)
(***************************************************************************)
C2_ReportedCyclesCloseWithinMaxDepth ==
    pc = "detected" =>
        /\ \A n \in Reported(cycles) : OnCycleWithin(graph, n, max_depth)
        /\ \A n \in Reported(DetectTightLoop(graph, max_depth)) :
               OnCycleWithin(graph, n, max_depth)
        /\ max_depth = 0 =>
               cycles = <<>> /\ DetectTightLoop(graph, max_depth) = <<>>

\* a search with max_depth = 2 has returned on a graph with a cycle of 3 hops:
\* nothing is reported, one hop more would close the cycle
C2_Witness ==
    /\ pc = "detected"
    /\ max_depth = 2
    /\ cycles = <<>>
    /\ \E n \in GraphNodes(graph) : OnCycleWithin(graph, n, 3)

(***************************************************************************)
(* C3. On every finite graph, cycles and self-loops included, a started    *)
(* cascade trace returns and a started cycle search returns.               *)
(***************************************************************************)
C3_TraversalsTerminate ==
    /\ (pc = "trace") ~> (pc = "traced")
    /\ (pc = "detect") ~> (pc = "detected")

\* a trace has returned whose source lies on a cycle
C3_Witness ==
    /\ pc = "traced"
    /\ OnCycleWithin(graph, source_fb, 3)
    /\ Len(expanded) > Cardinality(GraphNodes(graph))

(***************************************************************************)
(* What a finished run reports                                             *)
(***************************************************************************)
Analyzer == script = "analyze_event_flow"
Storm == script = "detect_storm_patterns"

\* the run wrote a report of a completed analysis
Reports == pc = "exited" /\ output = "json" /\ success

\* the severities of the findings of the report
FindingSeverities ==
    {details.explosive_patterns[i].severity :
        i \in 1..Len(details.explosive_patterns)}
    \cup {details.cycles_detected[i].severity :
        i \in 1..Len(details.cycles_detected)}
    \cup {details.detected_patterns[i].severity :
        i \in 1..Len(details.detected_patterns)}

\* the multiplication factor the analyzer reports for fb, 0 when it reports none
ReportedFactor(fb) ==
    LET f == details.multiplication_factors
        at == {i \in 1..Len(f) : f[i].fb = fb}
    IN  IF at = {} THEN 0 ELSE f[CHOOSE i \in at : TRUE].mult

\* the analyzer's fan-out findings for fb
ExplosiveFindings(fb) ==
    {i \in 1..Len(details.explosive_patterns) :
        details.explosive_patterns[i].source = fb}

\* the storm detector's fan-out findings for fb
IoFindings(fb) ==
    {i \in 1..Len(details.detected_patterns) :
        /\ details.detected_patterns[i].pattern = "UNCONTROLLED_IO_MULTIPLICATION"
        /\ details.detected_patterns[i].fb = fb}

\* the run read the one-file corpus of the star c -> B1..Bk
StarRun(c, k) == Reports /\ files = <<StarFile(c, k)>>

(***************************************************************************)
(* C4. The exit status of a run is 1 when the run fails hard, 0 when the   *)
(* report has no findings, 11 when a finding of severity CRITICAL is       *)
(* present (a detected tight loop is one), 10 when findings are present    *)
(* and none is CRITICAL.                                                   *)
(***************************************************************************)
C4_ExitStatusFollowsFindings ==
    pc = "exited" =>
        exit_code = IF ~root_exists \/ ~success THEN 1
                    ELSE IF FindingSeverities = {} THEN 0
                    ELSE IF "CRITICAL" \in FindingSeverities THEN 11
                    ELSE 10

(***************************************************************************)
(* C5. For the star A -> B1..Bk of childless nodes the analyzer's factor   *)
(* for A is the sum of the steps of its k paths, 2k (1 for k = 0, 70 for   *)
(* k = 35), and for k = 35 it reports one fan-out finding for A, CRITICAL; *)
(* the storm detector counts 1 + k events (36 for k = 35) and reports A    *)
(* at k = 35 exactly when A's name is an I/O name.                         *)
(***************************************************************************)
C5_StarFactorIsTwiceTheFanOut ==
    \A c \in StarCentres : \A k \in 0..MaxStar :
        StarRun(c, k) =>
            /\ Analyzer =>
                 /\ ReportedFactor(c) = IF k = 0 THEN 1 ELSE 2 * k
                 /\ k = 35 =>
                      /\ ReportedFactor(c) = 70
                      /\ \E i \in ExplosiveFindings(c) :
                            /\ details.explosive_patterns[i].multiplication = 70
                            /\ details.explosive_patterns[i].severity = "CRITICAL"
                      /\ Cardinality(ExplosiveFindings(c)) = 1
            /\ Storm =>
                 /\ k >= 1 => EventCount(graph, c) = 1 + k
                 /\ k = 35 =>
                      /\ EventCount(graph, c) = 36
                      /\ (IoFindings(c) # {}) = IsIoSource(c)

\* the analyzer has reported on the star of 35 leaves
C5_Witness ==
    /\ Analyzer
    /\ StarRun(<<"A">>, 35)
    /\ ReportedFactor(<<"A">>) = 70
    /\ ExplosiveFindings(<<"A">>) # {}

\* the statement with the factor 1 + k and a finding for A in every run
C5_StarFactorIsOnePlusFanOut ==
    \A c \in StarCentres : \A k \in 1..MaxStar :
        StarRun(c, k) =>
            /\ Analyzer =>
                 /\ ReportedFactor(c) = 1 + k
                 /\ k = 35 => ExplosiveFindings(c) # {}
            /\ Storm =>
                 /\ EventCount(graph, c) = 1 + k
                 /\ k = 35 => IoFindings(c) # {}

(***************************************************************************)
(* C6. The analyzer lists a fan-out finding for a source exactly when its  *)
(* factor is above 20, WARNING up to 50 and CRITICAL above 50; the storm   *)
(* detector lists one exactly when the source's name is an I/O name and    *)
(* its event count is above 30, and that finding is always a WARNING.      *)
(***************************************************************************)
C6_FanOutFindingsByScript ==
    Reports =>
        /\ Analyzer => \A k \in 1..Len(graph) :
             LET fb == graph[k].fb
                 mult == ReportedFactor(fb)
             IN  /\ (ExplosiveFindings(fb) # {}) = (mult > 20)
                 /\ \A i \in ExplosiveFindings(fb) :
                       details.explosive_patterns[i].severity =
                           IF mult > 50 THEN "CRITICAL" ELSE "WARNING"
        /\ Storm => \A fb \in GraphNodes(graph) :
             /\ (IoFindings(fb) # {}) = (IsIoSource(fb) /\ EventCount(graph, fb) > 30)
             /\ \A i \in IoFindings(fb) :
                   details.detected_patterns[i].severity = "WARNING"

\* the analyzer has listed a finding for a factor between 20 and 30, and the
\* storm detector a WARNING for an event count above 50
C6_Witness ==
    /\ Reports
    /\ \/ /\ Analyzer
          /\ \E i \in 1..Len(details.explosive_patterns) :
                /\ details.explosive_patterns[i].multiplication = 22
                /\ details.explosive_patterns[i].severity = "WARNING"
       \/ /\ Storm
          /\ \E i \in 1..Len(details.detected_patterns) :
                /\ details.detected_patterns[i].multiplication > 50
                /\ details.detected_patterns[i].severity = "WARNING"

\* the statement with one threshold of 30 for every source, whatever its name
C6_FanOutFindingIffAboveThirty ==
    Reports =>
        /\ Analyzer => \A k \in 1..Len(graph) :
             LET fb == graph[k].fb
                 mult == ReportedFactor(fb)
             IN  /\ (ExplosiveFindings(fb) # {}) = (mult > 30)
                 /\ \A i \in ExplosiveFindings(fb) :
                       details.explosive_patterns[i].severity =
                           IF mult > 50 THEN "CRITICAL" ELSE "WARNING"
        /\ Storm => \A k \in 1..Len(graph) :
             LET fb == graph[k].fb
                 count == EventCount(graph, fb)
             IN  /\ (IoFindings(fb) # {}) = (count > 30)
                 /\ \A i \in IoFindings(fb) :
                       details.detected_patterns[i].severity =
                           IF count > 50 THEN "CRITICAL" ELSE "WARNING"

(***************************************************************************)
(* C7. With a fan-out threshold above the amplification factor of every    *)
(* node of the graph (for detect_io_multiplication the number of nodes     *)
(* an event of the node reaches, the node included; for the analyzer the   *)
(* multiplication factor against its threshold) no fan-out finding is      *)
(* produced.                                                               *)
(***************************************************************************)
\* the nodes an event of n reaches, n included
Downstream(g, n) == {n} \cup WithinHops(g, n, Cardinality(GraphNodes(g)))

C7_ThresholdAboveEveryFactorFindsNothing ==
    pc = "counted" =>
        /\ (\A n \in GraphNodes(graph) :
               Cardinality(Downstream(graph, n)) < io_threshold)
           => io_violations = <<>>
        /\ LET factors == MultiplicationFactors(graph).factors
           IN  (\A i \in 1..Len(factors) : factors[i].mult < ExplosiveThreshold)
               => ExplosivePatterns(factors) = <<>>

\* the detector has returned nothing for a threshold above every count, on a
\* graph where a lower threshold has a finding
C7_Witness ==
    /\ pc = "counted"
    /\ io_violations = <<>>
    /\ \A n \in GraphNodes(graph) :
          Cardinality(Downstream(graph, n)) < io_threshold
    /\ \E k \in 1..Len(graph) :
          /\ IsIoSource(graph[k].fb)
          /\ Cardinality(Downstream(graph, graph[k].fb)) >= 2
    /\ DetectIoMultiplication(graph, 1) # <<>>

(***************************************************************************)
(* C8. With max_depth >= 1 every key of the graph that lies on a directed  *)
(* cycle of at most max_depth edges, a self-loop included, is reported by  *)
(* detect_cycles with severity CRITICAL and by detect_tight_loop; for the  *)
(* graph {A -> B, B -> A} and max_depth = 2, A is reported.                *)
(***************************************************************************)
TwoCycle ==
    <<[fb |-> <<"A">>, targets |-> << <<"B">> >>],
      [fb |-> <<"B">>, targets |-> << <<"A">> >>]>>

C8_EveryShortCycleIsReported ==
    (pc = "detected" /\ max_depth >= 1) =>
        /\ \A k \in 1..Len(graph) :
              OnCycleWithin(graph, graph[k].fb, max_depth) =>
                  /\ \E i \in 1..Len(cycles) :
                        /\ cycles[i].fb = graph[k].fb
                        /\ cycles[i].severity = "CRITICAL"
                  /\ graph[k].fb \in Reported(DetectTightLoop(graph, max_depth))
        /\ (graph = TwoCycle /\ max_depth = 2) => <<"A">> \in Reported(cycles)

\* the search with max_depth = 2 has returned on {A -> B, B -> A}
C8_Witness ==
    /\ pc = "detected"
    /\ graph = TwoCycle
    /\ max_depth = 2
    /\ <<"A">> \in Reported(cycles)

(***************************************************************************)
(* C9. Every node of the built event graph is the type name of a parsed    *)
(* definition, and every edge runs from a definition's type name to the    *)
(* declared type of the destination instance of one of its wiring entries. *)
(***************************************************************************)
\* the files that parse
Parsed == {i \in 1..Len(files) : files[i].parses}

\* the declared type of instance inst in file f, as a set (empty: undeclared)
DeclaredTypes(f, inst) ==
    {f.fbs[j].type : j \in {j \in 1..Len(f.fbs) : f.fbs[j].name = inst}}

C9_GraphNodesAreTypeNames ==
    /\ GraphNodes(graph) \subseteq {NameOf(files[i]) : i \in Parsed}
    /\ \A n, m \in GraphNodes(graph) :
          Edge(graph, n, m) =>
              \E i \in Parsed : \E j \in 1..Len(files[i].conns) :
                  /\ NameOf(files[i]) = n
                  /\ InList(".", files[i].conns[j].destination)
                  /\ m \in DeclaredTypes(files[i],
                                         SplitDotFirst(files[i].conns[j].destination))

(***************************************************************************)
(* C10. A wiring entry of the analyzer's input whose destination names an  *)
(* instance the definition does not declare adds no edge to the graph and  *)
(* leaves one unresolved-reference warning in the report.                  *)
(***************************************************************************)
\* the wiring entries <<i, j>> of the parsed definitions with such a destination
Dangling ==
    {e \in UNION {{<<i, j>> : j \in 1..Len(fb_types[i].event_connections)} :
                     i \in 1..Len(fb_types)} :
        LET dest == fb_types[e[1]].event_connections[e[2]].destination
        IN  /\ InList(".", dest)
            /\ \A k \in 1..Len(fb_types[e[1]].fb_instances) :
                  fb_types[e[1]].fb_instances[k].name # SplitDotFirst(dest)}

C10_DanglingDestinationIsDropped ==
    (Analyzer /\ pc \in {"factors", "classify", "result", "exited"}) =>
        \A e \in Dangling :
            LET conn == fb_types[e[1]].event_connections[e[2]]
            IN  /\ ~Edge(graph, SourceFb(conn.source, fb_types[e[1]].name),
                         SplitDotFirst(conn.destination))
                /\ Cardinality({w \in 1..Len(warnings) :
                       warnings[w].kind = "unresolved_reference"})
                   = Cardinality(Dangling)

(***************************************************************************)
(* C11. A run whose corpus root does not exist, or in which no file        *)
(* parses, ends with exit status 1, is not a success and carries no        *)
(* analysis results.                                                       *)
(***************************************************************************)
C11_FatalInputIsHardFailure ==
    (pc = "exited" /\ (~root_exists \/ Parsed = {})) =>
        /\ exit_code = 1
        /\ ~success
        /\ ~details.present

(***************************************************************************)
(* C12. When some but not all files are malformed (not parsable, or        *)
(* without a type name), the run still ends with a report, every malformed *)
(* file has a warning of its own in the report's warnings, and the graph   *)
(* is the one built from the remaining files.                              *)
(***************************************************************************)
\* the files that do not parse or whose root element has no Name attribute
Malformed == {i \in 1..Len(files) : ~files[i].parses \/ ~files[i].has_name}

\* a file with a structure and a type name
WellFormed(f) == f.parses /\ f.has_name

\* the graph the running script builds from the files fs
GraphOf(fs) ==
    IF Analyzer
    THEN BuildEventGraph(ParseAll(fs, 1, [fb_types |-> <<>>, warnings |-> <<>>]).fb_types)
    ELSE StormBuildEventGraph(fs)

C12_MalformedFilesAreSkippedWithWarning ==
    (/\ pc = "exited"
     /\ root_exists
     /\ Malformed # {}
     /\ Malformed # 1..Len(files)) =>
        /\ success
        /\ output = "json"
        /\ \A i \in Malformed :
              \E w \in 1..Len(warnings) :
                  warnings[w].kind = "parse_error" /\ warnings[w].file = i
        /\ graph = GraphOf(SelectSeq(files, WellFormed))

(***************************************************************************)
(* C13. Every findings list of a report is ordered by severity descending  *)
(* (CRITICAL, WARNING, INFO) and, within one severity, by subject name     *)
(* ascending.                                                              *)
(***************************************************************************)
\* the characters of the modelled names, in code point order
CodePoints == <<".">> \o Digits \o UpperLetters \o LowerLetters
CodePoint(c) == CHOOSE k \in 1..Len(CodePoints) : CodePoints[k] = c

\* a <= b for strings, as Python compares them
StrLeq(a, b) ==
    \/ \E i \in 1..Len(a) :
          /\ i <= Len(b)
          /\ \A j \in 1..(i - 1) : a[j] = b[j]
          /\ CodePoint(a[i]) < CodePoint(b[i])
    \/ /\ Len(a) <= Len(b)
       /\ \A j \in 1..Len(a) : a[j] = b[j]

SeverityRank(sev) ==
    IF sev = "CRITICAL" THEN 3 ELSE IF sev = "WARNING" THEN 2 ELSE 1

\* a list of [severity, subject] in the claimed order
InReportOrder(list) ==
    \A i, j \in 1..Len(list) :
        i < j =>
            \/ SeverityRank(list[i].severity) > SeverityRank(list[j].severity)
            \/ /\ list[i].severity = list[j].severity
               /\ StrLeq(list[i].subject, list[j].subject)

\* the findings lists of the report, as [severity, subject]
ExplosiveList ==
    [i \in 1..Len(details.explosive_patterns) |->
        [severity |-> details.explosive_patterns[i].severity,
         subject |-> details.explosive_patterns[i].source]]
CycleList ==
    [i \in 1..Len(details.cycles_detected) |->
        [severity |-> details.cycles_detected[i].severity,
         subject |-> details.cycles_detected[i].fb]]
PatternList ==
    [i \in 1..Len(details.detected_patterns) |->
        [severity |-> details.detected_patterns[i].severity,
         subject |-> details.detected_patterns[i].fb]]

C13_FindingsAreSorted ==
    Reports =>
        /\ InReportOrder(ExplosiveList)
        /\ InReportOrder(CycleList)
        /\ InReportOrder(PatternList)

(***************************************************************************)
(* C14. A second run of the script on the same corpus, its files found in  *)
(* the same order, reports the same findings in the same order and ends    *)
(* with the same exit status as the first.                                 *)
(***************************************************************************)
\* the findings lists of a report's details
FindingsOf(d) ==
    <<d.explosive_patterns, d.cycles_detected, d.detected_patterns>>

GraphBuilt == pc \in {"factors", "classify", "patterns", "result", "exited"}

\* some wiring entry of a parsed file adds an edge that starts at name
WiredFrom(name) ==
    \E i \in Parsed : \E j \in 1..Len(files[i].conns) :
        /\ SourceFb(files[i].conns[j].source, NameOf(files[i])) = name
        /\ InList(".", files[i].conns[j].destination)

C15_ParsedTypesAreGraphKeys ==
    GraphBuilt =>
        \A i \in Parsed :
            /\ HasKey(graph, NameOf(files[i]))
            /\ ~WiredFrom(NameOf(files[i])) =>
                   Targets(graph, NameOf(files[i])) = <<>>

(***************************************************************************)
(* C16. The list the cycle detector returns has at most one entry per      *)
(* node, for every graph and max_depth, and every entry carries severity   *)
(* CRITICAL; so do the TIGHT_EVENT_LOOP findings made of detect_tight_loop's *)
(* list.                                                                   *)
(***************************************************************************)
\* no two entries of the list are about the same node
OneEntryPerNode(entries) ==
    \A i, j \in 1..Len(entries) : entries[i].fb = entries[j].fb => i = j

\* every entry of the list is CRITICAL
AllCritical(entries) ==
    \A i \in 1..Len(entries) : entries[i].severity = "CRITICAL"

C16_OneCriticalEntryPerNode ==
    pc = "detected" =>
        /\ OneEntryPerNode(cycles)
        /\ AllCritical(cycles)
        /\ LET loops == TightLoopPatterns(DetectTightLoop(graph, max_depth))
           IN  OneEntryPerNode(loops) /\ AllCritical(loops)

\* the search has returned entries for two nodes, one of them on two cycles
C16_Witness ==
    /\ pc = "detected"
    /\ Len(cycles) >= 2
    /\ \E k \in 1..Len(graph) :
          /\ Len(graph[k].targets) >= 2
          /\ \A t \in 1..Len(graph[k].targets) :
                \/ graph[k].targets[t] = graph[k].fb
                \/ Edge(graph, graph[k].targets[t], graph[k].fb)

(***************************************************************************)
(* C17. Every definition the loader returns has a non-empty type name, and *)
(* a file whose root element has no Name attribute, or an empty one,       *)
(* contributes no definition and no graph node.                            *)
(***************************************************************************)
\* the parsed files whose root element has no Name attribute or an empty one
Nameless == {i \in Parsed : ~files[i].has_name \/ files[i].name = <<>>}

C17_TypeNamesAreNonEmpty ==
    /\ \A i \in 1..Len(fb_types) : fb_types[i].name # <<>>
    /\ GraphBuilt =>
          /\ Analyzer => Len(fb_types) = Cardinality(Parsed \ Nameless)
          /\ graph = GraphOf(SelectSeq(files, LAMBDA f : f.has_name /\ f.name # <<>>))

(***************************************************************************)
(* C18. When two files of the analyzer's corpus define the same type name, *)
(* the graph's successors of that name are those the file loaded last      *)
(* contributes, and the report's warnings hold a duplicate-name warning.   *)
(***************************************************************************)
\* the pairs i < j of parsed definitions with one type name
Duplicates ==
    {p \in (1..Len(fb_types)) \X (1..Len(fb_types)) :
        p[1] < p[2] /\ fb_types[p[1]].name = fb_types[p[2]].name}

\* the last definition that has the name of definition i
LastOf(i) ==
    CHOOSE j \in 1..Len(fb_types) :
        /\ fb_types[j].name = fb_types[i].name
        /\ \A k \in 1..Len(fb_types) : fb_types[k].name = fb_types[i].name => k <= j

C18_DuplicateNamesLastWins ==
    (Analyzer /\ GraphBuilt /\ Duplicates # {}) =>
        /\ \A p \in Duplicates :
              Get(graph, fb_types[p[1]].name) =
                  Get(BuildEventGraph(<<fb_types[LastOf(p[1])]>>), fb_types[p[1]].name)
        /\ \E w \in 1..Len(warnings) : warnings[w].kind = "duplicate_name"

(***************************************************************************)
(* C19. A run on a corpus that parses but wires no event connection (the   *)
(* graph is empty or has isolated nodes only) is a success with exit       *)
(* status 0 and no findings, every node has factor 1, and the report       *)
(* carries a warning that no event connections were found.                 *)
(***************************************************************************)
C19_DegenerateCorpusIsCleanWithNote ==
    (/\ pc = "exited"
     /\ root_exists
     /\ Parsed # {}
     /\ NumEdges(graph) = 0) =>
        /\ success
        /\ output = "json"
        /\ exit_code = 0
        /\ FindingSeverities = {}
        /\ \A k \in 1..Len(graph) : ReportedFactor(graph[k].fb) = 1
        /\ \E w \in 1..Len(warnings) : warnings[w].kind = "no_event_connections"

(***************************************************************************)
(* C20. A successful run of the analyzer exits with 0 when the largest     *)
(* multiplication factor is below 10, with 10 when it is from 10 to 20,    *)
(* and with 11 only when it is above 20 or an explosive pattern is         *)
(* reported.                                                               *)
(***************************************************************************)
\* the largest multiplication factor of the report, 0 when it has none
MaxReportedFactor ==
    IF details.multiplication_factors = <<>> THEN 0
    ELSE MaxMult(details.multiplication_factors)

C20_AnalyzerExitStatusByFactor ==
    (Reports /\ Analyzer) =>
        /\ exit_code = IF MaxReportedFactor < 10 THEN 0
                       ELSE IF MaxReportedFactor <= 20
                               /\ details.explosive_patterns = <<>> THEN 10
                       ELSE 11
        /\ exit_code = 11 =>
              details.explosive_patterns # <<>> \/ MaxReportedFactor > 20

(***************************************************************************)
(* C21: during one call of trace_event_cascade no node, the source         *)
(* included, is dequeued and expanded more than once.                      *)
(***************************************************************************)
ExpandedOnce ==
    \A i, j \in 1..Len(expanded) : expanded[i] = expanded[j] => i = j

C21_NoNodeIsExpandedTwice ==
    pc \in {"trace", "traced"} => ExpandedOnce

(***************************************************************************)
(* C22: in a trace, every dequeued node that has no unvisited successor    *)
(* (no successors at all, or only visited ones) ends a path that is        *)
(* recorded in the list of cascade paths, and every trace returns at least *)
(* one path.                                                               *)
(***************************************************************************)
NoUnvisitedSuccessor ==
    \A i \in 1..Len(Get(graph, Head(queue).fb)) :
        Get(graph, Head(queue).fb)[i] \in visited

FrontierPathRecorded ==
    cascade_paths' = Append(cascade_paths,
                            [source |-> source_fb, path |-> Head(queue).path,
                             events_generated |-> Head(queue).events])

C22_ExhaustedFrontierEndsAPath ==
    /\ [][(pc = "trace" /\ queue # <<>> /\ NoUnvisitedSuccessor)
             => FrontierPathRecorded]_vars
    /\ [](pc = "traced" => cascade_paths # <<>>)

(***************************************************************************)
(* C23: the multiplication factor reported for a source is the sum of the  *)
(* step counts of all the cascade paths its trace returns, each path       *)
(* counted once; a source is listed when that sum is positive.             *)
(***************************************************************************)
\* the steps of all paths, one element per path and step
PathSteps(paths) ==
    UNION {{<<i, s>> : s \in 1..paths[i].events_generated} : i \in 1..Len(paths)}

StepTotal(paths) == Cardinality(PathSteps(paths))

C23_FactorIsSumOfPathSteps ==
    (Analyzer /\ Reports) =>
        /\ \A i \in 1..Len(details.multiplication_factors) :
              details.multiplication_factors[i].mult =
                 StepTotal(TraceEventCascade(graph,
                               details.multiplication_factors[i].fb))
        /\ \A k \in 1..Len(graph) :
              StepTotal(TraceEventCascade(graph, graph[k].fb)) =
                 ReportedFactor(graph[k].fb)

C23_Witness ==
    /\ Analyzer /\ Reports
    /\ \E i \in 1..Len(details.multiplication_factors) :
          LET paths == TraceEventCascade(graph,
                           details.multiplication_factors[i].fb)
          IN  /\ Len(paths) = 2
              /\ paths[1].events_generated # paths[2].events_generated
              /\ details.multiplication_factors[i].mult = 5

(***************************************************************************)
(* C24: the event graph is unchanged by traversal.  No step of a           *)
(* trace_event_cascade or detect_cycles call, for any source (a key or     *)
(* not) and any max_depth, changes the keys or the successor lists, so     *)
(* after any sequence of calls a trace or a cycle search returns what it   *)
(* returns on the graph as it was built.                                   *)
(***************************************************************************)
C24_TraversalLeavesGraphUnchanged ==
    /\ [][graph' = graph]_vars
    /\ [](pc = "traced" => cascade_paths = TraceEventCascade(graph, source_fb))
    /\ [](pc = "detected" => cycles = DetectCycles(graph, max_depth))

\* a trace from a node that is not a key has returned its path and the node
\* is still not a key
C24_Witness ==
    /\ pc = "traced"
    /\ ~HasKey(graph, source_fb)
    /\ cascade_paths # <<>>
    /\ Len(graph) > 1

(***************************************************************************)
(* C25: in every successful report of detect_storm_patterns the counts of  *)
(* CRITICAL, WARNING and INFO in pattern_summary add up to the number of   *)
(* detected patterns, and the exit status is 11 exactly when the CRITICAL  *)
(* count is positive, 10 exactly when it is zero and patterns exist, and   *)
(* 0 exactly when there is no pattern.                                     *)
(***************************************************************************)
SummaryTotal ==
    details.pattern_summary.CRITICAL + details.pattern_summary.WARNING
       + details.pattern_summary.INFO

C25_SummaryCountsAndExitStatus ==
    (Storm /\ Reports) =>
        /\ SummaryTotal = Len(details.detected_patterns)
        /\ exit_code = 11 <=> details.pattern_summary.CRITICAL > 0
        /\ exit_code = 10 <=> (/\ details.pattern_summary.CRITICAL = 0
                               /\ Len(details.detected_patterns) > 0)
        /\ exit_code = 0 <=> Len(details.detected_patterns) = 0

\* a report with a warning and nothing critical
C25_Witness ==
    /\ Storm /\ Reports
    /\ details.pattern_summary.CRITICAL = 0
    /\ details.pattern_summary.WARNING = 1
    /\ Len(details.detected_patterns) = 1
    /\ exit_code = 10

(***************************************************************************)
(* C26: the multiplication factor of a source is the sum, over the nodes   *)
(* without outgoing edges that are reachable from the source (the source   *)
(* itself when it has none), of the shortest-path distance from the source *)
(* plus one; so it does not depend on the order of the adjacency lists.    *)
(***************************************************************************)
\* the nodes without outgoing edges reachable from n, n itself included
ReachableSinks(g, n) == {m \in Downstream(g, n) : Get(g, m) = <<>>}

\* the length of a shortest path from n to a node m reachable from it
Distance(g, n, m) ==
    IF m = n THEN 0
    ELSE CHOOSE d \in 1..Cardinality(GraphNodes(g)) :
            /\ m \in WithinHops(g, n, d)
            /\ m \notin WithinHops(g, n, d - 1)

\* one element per reachable sink and unit of (distance + 1)
SinkSteps(g, n) ==
    UNION {{<<m, s>> : s \in 1..Distance(g, n, m) + 1} : m \in ReachableSinks(g, n)}

C26_FactorIsSumOfSinkDistances ==
    pc = "traced" =>
        CalculateMultiplicationFactor(cascade_paths) =
            Cardinality(SinkSteps(graph, source_fb))

\* a sink reached both directly and through another node counts once, at
\* its shortest distance
C26_Witness ==
    /\ pc = "traced"
    /\ source_fb = <<"A">>
    /\ Edge(graph, <<"A">>, <<"B">>)
    /\ Edge(graph, <<"B">>, <<"d", "i">>)
    /\ Edge(graph, <<"A">>, <<"d", "i">>)
    /\ CalculateMultiplicationFactor(cascade_paths) = 2

(***************************************************************************)
(* C27: every cascade path a trace returns starts at the source, follows   *)
(* edges of the graph, visits no node twice, ends at a node without        *)
(* outgoing edges and has events_generated equal to the number of its      *)
(* nodes; each reachable node without outgoing edges ends exactly one      *)
(* returned path.                                                          *)
(***************************************************************************)
WellFormedPath(g, source, p) ==
    /\ p.source = source
    /\ p.path # <<>>
    /\ p.path[1] = source
    /\ \A i \in 1..Len(p.path) - 1 : Edge(g, p.path[i], p.path[i + 1])
    /\ \A i, j \in 1..Len(p.path) : p.path[i] = p.path[j] => i = j
    /\ Get(g, p.path[Len(p.path)]) = <<>>
    /\ p.events_generated = Len(p.path)

\* the returned paths that end at m
PathsEndingAt(paths, m) ==
    {i \in 1..Len(paths) : paths[i].path[Len(paths[i].path)] = m}

C27_PathsAreSimpleAndEndAtSinks ==
    pc = "traced" =>
        /\ \A i \in 1..Len(cascade_paths) :
              WellFormedPath(graph, source_fb, cascade_paths[i])
        /\ \A m \in ReachableSinks(graph, source_fb) :
              Cardinality(PathsEndingAt(cascade_paths, m)) = 1

\* the source lies on a cycle and a sink is reached through the cycle
C27_Witness ==
    /\ pc = "traced"
    /\ OnCycleWithin(graph, source_fb, 2)
    /\ Len(cascade_paths) = 1
    /\ Len(cascade_paths[1].path) = 3

(***************************************************************************)
(* C28: in the analyzer's report a graph key has an entry in               *)
(* multiplication_factors exactly when a node without outgoing edges is    *)
(* reachable from it, every entry is at least 1, and a key from which only *)
(* cycles are reachable has no entry, no cascade path and no fan-out       *)
(* finding.                                                                *)
(***************************************************************************)
HasFactorEntry(fb) ==
    \E i \in 1..Len(details.multiplication_factors) :
        details.multiplication_factors[i].fb = fb

ReportedPathsOf(fb) ==
    {i \in 1..Len(details.cascade_paths) : details.cascade_paths[i].source = fb}

C28_EntryIffSinkReachable ==
    (Analyzer /\ Reports) =>
        /\ \A k \in 1..Len(graph) :
              /\ HasFactorEntry(graph[k].fb)
                    <=> ReachableSinks(graph, graph[k].fb) # {}
              /\ ReachableSinks(graph, graph[k].fb) = {} =>
                    /\ ReportedPathsOf(graph[k].fb) = {}
                    /\ ExplosiveFindings(graph[k].fb) = {}
        /\ \A i \in 1..Len(details.multiplication_factors) :
              /\ details.multiplication_factors[i].mult >= 1
              /\ HasKey(graph, details.multiplication_factors[i].fb)

\* a report over a graph with a key on a cycle that reaches no sink, next to
\* a key that has an entry
C28_Witness ==
    /\ Analyzer /\ Reports
    /\ \E k \in 1..Len(graph) :
          /\ graph[k].targets # <<>>
          /\ ReachableSinks(graph, graph[k].fb) = {}
          /\ ~HasFactorEntry(graph[k].fb)
    /\ details.multiplication_factors # <<>>

(***************************************************************************)
(* C29: for the same graph and the same max_depth, detect_tight_loop       *)
(* (visited set) and detect_cycles (path list) report the same nodes in    *)
(* the same key order.                                                     *)
(***************************************************************************)
\* the nodes of a list of entries, in the order of the list
ReportedInOrder(entries) == [i \in 1..Len(entries) |-> entries[i].fb]

C29_TightLoopAgreesWithDetectCycles ==
    pc = "detected" =>
        ReportedInOrder(cycles) =
            ReportedInOrder(DetectTightLoop(graph, max_depth))

\* two keys are reported and a third key is not
C29_Witness ==
    /\ pc = "detected"
    /\ max_depth = 2
    /\ Len(cycles) = 2
    /\ Len(graph) = 3
    /\ Len(DetectTightLoop(graph, max_depth)) = 2

(***************************************************************************)
(* C30: for every source detect_io_multiplication considers, the count it  *)
(* reports is the number of distinct nodes reachable from the source, the  *)
(* source included, each counted once; a violation is recorded exactly     *)
(* when that count is greater than the threshold.                          *)
(***************************************************************************)
\* the entries of the returned list for fb
ViolationsOf(fb) ==
    {i \in 1..Len(io_violations) : io_violations[i].io_source = fb}

C30_IoCountIsReachableNodes ==
    pc = "counted" =>
        /\ \A k \in 1..Len(graph) :
              IsIoSource(graph[k].fb) =>
                 /\ EventCount(graph, graph[k].fb) =
                       Cardinality(Downstream(graph, graph[k].fb))
                 /\ ViolationsOf(graph[k].fb) # {}
                       <=> Cardinality(Downstream(graph, graph[k].fb)) > io_threshold
        /\ \A i \in 1..Len(io_violations) :
              /\ HasKey(graph, io_violations[i].io_source)
              /\ IsIoSource(io_violations[i].io_source)
              /\ io_violations[i].multiplication =
                    Cardinality(Downstream(graph, io_violations[i].io_source))

\* B is reached from the source directly and through A and is counted once
C30_Witness ==
    /\ pc = "counted"
    /\ io_threshold = 2
    /\ Edge(graph, <<"d", "i">>, <<"A">>)
    /\ Edge(graph, <<"d", "i">>, <<"B">>)
    /\ Edge(graph, <<"A">>, <<"B">>)
    /\ io_violations = <<[io_source |-> <<"d", "i">>, multiplication |-> 3]>>

====
